---- MODULE Spec2Model ----
(***************************************************************************)
(* A model of tower (src/tower/__init__.py): the context-qualified message *)
(* API (ugettext, ungettext), the locale catalog resolver (activate,       *)
(* _activate, deactivate_all) and the message extractor (tweak_message,    *)
(* extract_tower_python, extract_tower_template).                          *)
(*                                                                         *)
(* Text is a sequence of one-character strings.  A catalog is a record     *)
(* [msgs, plurals, plural, lang]: gettext's _catalog dict is split into    *)
(* its singular entries (msgid -> text) and its plural entries             *)
(* (<<msgid, index>> -> text); plural names the plural rule.               *)
(***************************************************************************)
EXTENDS Integers, Sequences, FiniteSets, TLC

VARIABLES
    heap,           \* catalog objects by identity: object id -> catalog
    translations,   \* django_trans._translations: canonical tag -> object id
    active,         \* django_trans._active.value, per thread
    last,           \* what the latest activate / deactivate_all call did
    returned,       \* per tag: the catalog the last returning resolve gave
    pc,             \* per thread: position inside activate
    frame,          \* per thread: the locals of _activate (locale, t)
    race,           \* observation of overlapping resolves of one tag
    call,           \* the message-API or extractor call under study
    result          \* what that call returned

vars == <<heap, translations, active, last, returned, pc, frame, race,
          call, result>>

resolverVars == <<heap, translations, active, last, returned, pc, frame, race>>
apiVars == <<call, result>>

-----------------------------------------------------------------------------
(* Bounds of the model.                                                    *)

MaxLen == 3          \* longest message given to ugettext / the extractor
MaxPluralLen == 2    \* longest singular / plural form given to ungettext
MaxCount == 2        \* largest count given to ungettext
MaxCopies == 3       \* catalog copies one run of Spec may allocate
MaxThreadCopies == 2 \* catalog copies one run of SpecThreads may allocate
MaxForms == 2        \* most forms a plural entry of a catalog file has

-----------------------------------------------------------------------------
(* Text.                                                                   *)

\* the separator of add_context: u"\x04"
SEP == "\\x04"

\* what the pattern \s matches (re.UNICODE) among the characters modelled
Whitespace == {" ", "\t", "\n", "\r", "\f"}

None == <<"None">>

SeqsUpTo(S, n) == UNION {[1..k -> S] : k \in 0..n}

Contains(s, c) == \E i \in 1..Len(s) : s[i] = c

IsPrefix(p, s) == Len(p) <= Len(s) /\ SubSeq(s, 1, Len(p)) = p

\* re.sub(r'\s+', ' ', message): every maximal run of whitespace becomes one
\* space
RECURSIVE sub_runs(_, _)
sub_runs(message, inRun) ==
    IF message = <<>> THEN <<>>
    ELSE IF Head(message) \in Whitespace
         THEN (IF inRun THEN <<>> ELSE <<" ">>) \o sub_runs(Tail(message), TRUE)
         ELSE <<Head(message)>> \o sub_runs(Tail(message), FALSE)

\* str.strip(): whitespace removed at both ends
RECURSIVE lstrip(_)
lstrip(s) ==
    IF s # <<>> /\ Head(s) \in Whitespace THEN lstrip(Tail(s)) ELSE s

RECURSIVE rstrip(_)
rstrip(s) ==
    IF s # <<>> /\ s[Len(s)] \in Whitespace
    THEN rstrip(SubSeq(s, 1, Len(s) - 1)) ELSE s

strip(s) == rstrip(lstrip(s))

strip_whitespace(message) == strip(sub_runs(message, FALSE))

add_context(context, message) == context \o <<SEP>> \o message

\* Python truth of the context argument: None and u"" are both false
Truthy(context) == context # None /\ context # <<>>


-----------------------------------------------------------------------------
(* Catalogs.                                                               *)

\* the plural rules of the catalogs modelled: count -> plural index
PluralIndex(rule, n) ==
    CASE rule = "germanic" -> (IF n # 1 THEN 1 ELSE 0)   \* n != 1
      [] rule = "french"   -> (IF n > 1 THEN 1 ELSE 0)   \* n > 1
      [] OTHER             -> 0                          \* one form only

\* GNUTranslations.ugettext as django's ugettext calls it on the active
\* catalog: the singular entry of the message, else the message itself
\* (plural entries are keyed by (msgid, index) and never answer it)
django_ugettext(catalog, message) ==
    IF message \in DOMAIN catalog.msgs THEN catalog.msgs[message] ELSE message

\* GNUTranslations.ungettext: the entry of (msgid1, plural(n)), or msgid1 for
\* n = 1 and msgid2 otherwise when there is none
django_nugettext(catalog, singular, plural, number) ==
    LET key == <<singular, PluralIndex(catalog.plural, number)>>
    IN IF key \in DOMAIN catalog.plurals THEN catalog.plurals[key]
       ELSE IF number = 1 THEN singular ELSE plural

\* A compiled catalog file is [header, singles, plurals]: header names the
\* rule of its Plural-Forms line ("none" for a file without header entry),
\* singles maps a msgid to its text, plurals a msgid to its forms in order.

\* the text of the header entry (abbreviated to its Plural-Forms line)
header_text(rule) == <<"Plural-Forms: ", rule>>

\* GNUTranslations._parse: the header entry is stored under the msgid u''
\* and sets the plural rule, which is n != 1 without it; a plural entry is
\* stored under (msgid, i) for every form i from 0
parse(file, lang) ==
    LET keys == {<<m, i>> : m \in DOMAIN file.plurals, i \in 0..MaxForms - 1}
        held == {k \in keys : k[2] < Len(file.plurals[k[1]])}
    IN [msgs    |-> IF file.header = "none" THEN file.singles
                    ELSE (<<>> :> header_text(file.header)) @@ file.singles,
        plurals |-> [k \in held |-> file.plurals[k[1]][k[2] + 1]],
        plural  |-> IF file.header = "none" THEN "germanic" ELSE file.header,
        lang    |-> lang]

\* the framework's default catalog (en-US), the one django hands out for a
\* locale it has no data for
DefaultCatalog ==
    parse([header  |-> "germanic",
           singles |-> (<<"a">> :> <<"D">>) @@ (<<"c", SEP, "a">> :> <<"d">>),
           plurals |-> (<<"a">> :> <<<<"D", "0">>, <<"D", "1">>>>)],
          <<"e", "n", "-", "u", "s">>)

\* the framework's own catalog for fr
FrameworkFrCatalog ==
    parse([header  |-> "french",
           singles |-> (<<"a">> :> <<"f">>),
           plurals |-> (<<"a">> :> <<<<"f", "0">>, <<"f", "1">>>>)],
          <<"f", "r">>)

\* copy.deepcopy of a catalog: an equal value (the new identity is the fresh
\* object id the caller binds it to)
deepcopy(catalog) == catalog

\* DjangoTranslation.set_language
set_language(catalog, locale) == [catalog EXCEPT !.lang = locale]

\* DjangoTranslation.merge: self._catalog.update(other._catalog), the
\* entries of other win
merge(catalog, other) ==
    [catalog EXCEPT !.msgs = other.msgs @@ catalog.msgs,
                    !.plurals = other.plurals @@ catalog.plurals]

-----------------------------------------------------------------------------
(* Locale tags.                                                            *)

Lowers == <<"e", "n", "u", "s", "f", "r">>
Uppers == <<"E", "N", "U", "S", "F", "R">>

lower_char(c) ==
    IF \E i \in 1..Len(Uppers) : Uppers[i] = c
    THEN Lowers[CHOOSE i \in 1..Len(Uppers) : Uppers[i] = c] ELSE c

upper_char(c) ==
    IF \E i \in 1..Len(Lowers) : Lowers[i] = c
    THEN Uppers[CHOOSE i \in 1..Len(Lowers) : Lowers[i] = c] ELSE c

lower(s) == [i \in 1..Len(s) |-> lower_char(s[i])]
upper(s) == [i \in 1..Len(s) |-> upper_char(s[i])]

\* str.find('-'): the index (from 1) of the first '-', 0 when there is none
find_dash(s) ==
    IF Contains(s, "-")
    THEN CHOOSE k \in 1..Len(s) : s[k] = "-" /\ \A j \in 1..(k - 1) : s[j] # "-"
    ELSE 0

\* django_trans.to_locale(language): 'en-us' -> 'en_US', 'sr-latn' ->
\* 'sr_Latn', and a name without '-' is lower-cased
to_locale(language) ==
    LET p == find_dash(language)
        head == SubSeq(language, 1, p - 1)
        rest == SubSeq(language, p + 1, Len(language))
    IN IF p > 0
       THEN IF Len(rest) > 2
            THEN lower(head) \o <<"_">> \o <<upper_char(rest[1])>>
                 \o lower(Tail(rest))
            ELSE lower(head) \o <<"_">> \o upper(rest)
       ELSE lower(language)

\* gettext.translation(domain, path('locale'), [locale], ...) does not open
\* locale/<locale>: gettext.find expands the tag (gettext._expand_lang, on
\* locale.normalize, which ignores case) and takes the first directory of
\* the expansion that holds <domain>.mo.  en_us and en_US expand alike.
expand_lang(locale) ==
    CASE lower(locale) = <<"e", "n", "_", "u", "s">> ->
            <<"en_US.ISO8859-1", "en_US", "en.ISO8859-1", "en">>
      [] lower(locale) = <<"f", "r">> ->
            <<"fr_FR.ISO8859-1", "fr_FR", "fr.ISO8859-1", "fr">>
      [] OTHER -> <<>>

\* the directories under path('locale') that hold a catalog when one is found
MoDirs == {"en_US", "fr"}

\* the file each of them holds
mo_file(dir) ==
    IF dir = "fr"
    THEN [header  |-> "french",
          singles |-> (<<"a">> :> <<"F">>) @@
                      (<<"c", SEP, "a", " ", "a">> :> <<"G">>),
          plurals |-> (<<"c", SEP, "a">> :> <<<<"F", "0">>>>) @@
                      (<<"a">> :> <<<<"X">>, <<"F", "1">>>>)]
    ELSE [header  |-> "single",
          singles |-> (<<"c", SEP, "a">> :> <<"E">>) @@
                      (<<"a", " ", "a">> :> <<"J">>),
          plurals |-> (<<"a">> :> <<<<"J", "0">>>>) @@
                      (<<"c", SEP, "a">> :> <<<<"Y">>, <<"E", "1">>>>)]

\* the catalog gettext builds from it
mo_catalog(dir) ==
    parse(mo_file(dir),
          IF dir = "fr" THEN <<"f", "r">> ELSE <<"e", "n", "_", "U", "S">>)

\* the supplementary catalog gettext.translation loads for a tag when it
\* finds one: that of the first directory of the expansion that has a file
bonus(locale) ==
    LET dirs == expand_lang(locale)
        i == CHOOSE k \in 1..Len(dirs) :
                 dirs[k] \in MoDirs /\ \A j \in 1..(k - 1) : dirs[j] \notin MoDirs
    IN mo_catalog(dirs[i])


\* the locale arguments the model activates
RawLocales ==
    {<<"e", "n", "-", "U", "S">>, <<"e", "n", "-", "u", "s">>,
     <<"e", "n", "_", "U", "S">>, <<"f", "r">>, <<"F", "R">>}

Tags == {to_locale(raw) : raw \in RawLocales}


-----------------------------------------------------------------------------
(* Catalog objects.  Python compares and caches catalogs by identity, so   *)
(* references are object ids; heap gives the catalog each one holds.       *)

NoObj == 0        \* Python's None where a catalog reference is expected
NullObj == 1      \* the gettext.NullTranslations() django's deactivate_all sets
DefaultObj == 2   \* the framework's default (en-US) catalog object
FrObj == 3        \* the framework's own fr catalog object

\* the catalog django builds for a locale: its own data for fr, and the
\* default catalog object itself for a locale it has no data for
FrameworkObj(locale) == IF locale = <<"f", "r">> THEN FrObj ELSE DefaultObj

\* the keys _translations may hold
CacheKeys == Tags \cup RawLocales

EmptyCache == [k \in CacheKeys |-> NoObj]

\* django_trans.translation(locale): the cached object when there is one,
\* else the framework's catalog for the locale ...
translation(cache, locale) ==
    IF cache[locale] # NoObj THEN cache[locale] ELSE FrameworkObj(locale)

\* ... which django stores in _translations under that locale
translation_cached(cache, locale) ==
    [cache EXCEPT ![locale] = translation(cache, locale)]

\* what the try block of _activate can meet: no SETTINGS_MODULE, the catalog
\* loaded, IOError because there is no file, IOError for another reason (an
\* unreadable file, a bad magic number), and an exception of another class
LoadOutcomes == {"nosettings", "found", "notfound", "ioerror", "error"}

caught_nothing(outcome) == FALSE

\* lines 162-163, except IOError: pass -- every IOError, whatever its cause
Caught(outcome) == outcome \in {"notfound", "ioerror"}

\* the try block raised and no except clause took it: the exception leaves
\* _activate and activate
Raises(outcome) == outcome \in {"notfound", "ioerror", "error"} /\ ~Caught(outcome)

Fresh(h) == (CHOOSE k \in DOMAIN h : \A j \in DOMAIN h : j <= k) + 1

Copies(h) == DOMAIN h \ {DefaultObj, FrObj}

copy_target_aliased(src, fresh) == src

\* t = copy.deepcopy(...): t is bound to the new object
copy_target(src, fresh) == fresh

\* lines 137-138: the heap after t = copy.deepcopy(src); t.set_language(locale)
Copied(h, src, locale) ==
    LET fresh == Fresh(h)
        t == copy_target(src, fresh)
        h1 == (fresh :> deepcopy(h[src])) @@ h
    IN [h1 EXCEPT ![t] = set_language(@, locale)]

keep_plural(catalog, other) == catalog

\* line 160: t.plural = bonus.plural
overwrite_plural(catalog, other) == [catalog EXCEPT !.plural = other.plural]

\* lines 150-163: the catalog t holds after the try block
Loaded(catalog, locale, outcome) ==
    IF outcome = "found"
    THEN overwrite_plural(merge(catalog, bonus(locale)), bonus(locale))
    ELSE catalog

store_skipped(cache, locale, t) == cache

store_if_absent(cache, locale, t) ==
    IF cache[locale] # NoObj THEN cache ELSE [cache EXCEPT ![locale] = t]

\* line 165: django_trans._translations[locale] = t
store(cache, locale, t) == [cache EXCEPT ![locale] = t]

-----------------------------------------------------------------------------
(* The resolver, one call at a time.                                       *)

Threads == {"T1", "T2"}
Main == "T1"

NoReturn == [obj |-> NoObj, raw |-> <<>>]

NoCall == [op |-> "none"]

\* a thread outside _activate
NoFrame == [raw |-> <<>>, locale |-> <<>>, src |-> NoObj, miss |-> FALSE,
            t |-> NoObj, racing |-> FALSE]

\* no pair of overlapping resolves observed
NoRace == [tag |-> <<>>, stores |-> <<>>, done |-> FALSE]

InitResolver ==
    /\ heap = (DefaultObj :> DefaultCatalog) @@ (FrObj :> FrameworkFrCatalog)
    /\ translations = EmptyCache
    /\ active = [th \in Threads |-> NoObj]
    /\ last = [op |-> "none", raw |-> <<>>, locale |-> <<>>, hit |-> FALSE,
               copied |-> FALSE, load |-> "none", raised |-> FALSE,
               ret |-> NoObj, src |-> NoObj, prev |-> NoReturn,
               prevOp |-> "none", preActive |-> NoObj, dropped |-> {}]
    /\ returned = [k \in CacheKeys |-> NoReturn]
    /\ pc = [th \in Threads |-> "idle"]
    /\ frame = [th \in Threads |-> NoFrame]
    /\ race = NoRace

NoResult == [done |-> FALSE, lookup |-> <<>>, value |-> <<>>]

InitApi ==
    /\ call = NoCall
    /\ result = NoResult

\* activate(locale) run to its end by the main thread: lines 101-115 around
\* _activate, lines 118-166.  outcome is what the try block meets when it is
\* reached.
activate(raw, outcome) ==
    LET locale == to_locale(raw)
        cached == translations[locale]
        src    == translation(translations, locale)
        cache1 == translation_cached(translations, locale)
        heap1  == Copied(heap, src, locale)
        t      == copy_target(src, Fresh(heap))
        heap2  == [heap1 EXCEPT ![t] = Loaded(@, locale, outcome)]
        rec    == [op |-> "activate", raw |-> raw, locale |-> locale,
                   prev |-> returned[locale], prevOp |-> last.op,
                   preActive |-> active[Main],
                   dropped |-> IF last.op = "deactivate_all"
                               THEN last.dropped ELSE {}]
    IN /\ pc[Main] = "idle"
       /\ IF cached # NoObj
          THEN \* lines 126-128: the cache has it; the try block is not
               \* reached, so outcome plays no part (pinned to one value)
               /\ outcome = "nosettings"
               /\ active' = [active EXCEPT ![Main] = cached]
               /\ returned' = [returned EXCEPT ![locale] =
                                   [obj |-> cached, raw |-> raw]]
               /\ last' = rec @@ [hit |-> TRUE, copied |-> FALSE,
                                  load |-> "none", raised |-> FALSE,
                                  ret |-> cached, src |-> NoObj]
               /\ UNCHANGED <<heap, translations>>
          ELSE /\ Cardinality(Copies(heap)) < MaxCopies
               /\ IF Raises(outcome)
                  THEN \* the exception leaves activate: no store, no
                       \* assignment to _active
                       /\ heap' = heap1
                       /\ translations' = cache1
                       /\ last' = rec @@ [hit |-> FALSE, copied |-> TRUE,
                                          load |-> outcome, raised |-> TRUE,
                                          ret |-> NoObj, src |-> src]
                       /\ UNCHANGED <<active, returned>>
                  ELSE /\ heap' = heap2
                       /\ translations' = store(cache1, locale, t)
                       /\ active' = [active EXCEPT ![Main] = t]
                       /\ returned' = [returned EXCEPT ![locale] =
                                           [obj |-> t, raw |-> raw]]
                       /\ last' = rec @@ [hit |-> FALSE, copied |-> TRUE,
                                          load |-> outcome, raised |-> FALSE,
                                          ret |-> t, src |-> src]
       /\ UNCHANGED <<pc, frame, race, call, result>>

deactivate_keep_cache(cache) == cache

\* line 174: django_trans._translations = {}
deactivate_cache(cache) == EmptyCache

\* deactivate_all(): django's deactivate_all makes the thread's active
\* catalog a NullTranslations, then the cache is replaced by an empty dict
deactivate_all ==
    /\ pc[Main] = "idle"
    /\ active' = [active EXCEPT ![Main] = NullObj]
    /\ translations' = deactivate_cache(translations)
    /\ returned' = [k \in CacheKeys |-> NoReturn]
    /\ last' = [last EXCEPT !.op = "deactivate_all", !.raw = <<>>,
                            !.locale = <<>>, !.hit = FALSE, !.copied = FALSE,
                            !.load = "none", !.raised = FALSE, !.ret = NoObj,
                            !.src = NoObj, !.prev = NoReturn,
                            !.prevOp = last.op, !.preActive = active[Main],
                            !.dropped = {k \in CacheKeys : translations[k] # NoObj}]
    /\ UNCHANGED <<heap, pc, frame, race, call, result>>

Init == InitResolver /\ InitApi

Next ==
    \/ \E raw \in RawLocales, outcome \in LoadOutcomes : activate(raw, outcome)
    \/ deactivate_all

Spec == Init /\ [][Next]_vars

-----------------------------------------------------------------------------
(* The message API and the extractor: pure functions of their arguments    *)
(* and of the active catalog.                                              *)

ugettext_qualified(catalog, message, context) ==
    LET stripped == strip_whitespace(message)
        key == IF Truthy(context) THEN add_context(context, stripped)
               ELSE stripped
    IN [lookup |-> django_ugettext(catalog, key),
        value  |-> django_ugettext(catalog, key)]

\* ugettext(message, context=None), lines 30-39; lookup is what
\* django_ugettext returned, value what ugettext returns
ugettext(catalog, message, context) ==
    LET stripped == strip_whitespace(message)
        key == IF Truthy(context) THEN add_context(context, stripped)
               ELSE stripped
        ret == django_ugettext(catalog, key)
    IN [lookup |-> ret, value |-> IF ret = key THEN stripped ELSE ret]

ungettext_singular_only(catalog, singular, plural, number, context) ==
    LET singular_stripped == strip_whitespace(singular)
        plural_stripped == strip_whitespace(plural)
        s == IF Truthy(context) THEN add_context(context, singular_stripped)
             ELSE singular_stripped
        p == IF Truthy(context) THEN add_context(context, plural_stripped)
             ELSE plural_stripped
        ret == django_nugettext(catalog, s, p, number)
    IN [lookup |-> ret, value |-> IF ret = s THEN singular_stripped ELSE ret]

\* ungettext(singular, plural, number, context=None), lines 42-61
ungettext(catalog, singular, plural, number, context) ==
    LET singular_stripped == strip_whitespace(singular)
        plural_stripped == strip_whitespace(plural)
        s == IF Truthy(context) THEN add_context(context, singular_stripped)
             ELSE singular_stripped
        p == IF Truthy(context) THEN add_context(context, plural_stripped)
             ELSE plural_stripped
        ret == django_nugettext(catalog, s, p, number)
    IN [lookup |-> ret,
        value  |-> IF ret = s THEN singular_stripped
                   ELSE IF ret = p THEN plural_stripped
                   ELSE ret]

\* Extracted payloads.  A payload is [kind, items]: kind "string" with one
\* item, kind "tuple" with its elements, kind "other" (None, a number) with
\* none; an element is [isstr, val], val being its text.
Str(text) == [isstr |-> TRUE, val |-> text]
NoneElem == [isstr |-> FALSE, val |-> <<"N", "o", "n", "e">>]
StringPayload(text) == [kind |-> "string", items |-> <<Str(text)>>]
TuplePayload(items) == [kind |-> "tuple", items |-> items]
OtherPayload == [kind |-> "other", items |-> <<>>]
TypeError == [kind |-> "TypeError", items |-> <<>>]

\* tweak_message(message), lines 177-206
tweak_message(message) ==
    LET items == message.items
    IN IF message.kind = "string"
       THEN StringPayload(strip_whitespace(items[1].val))
       ELSE IF message.kind = "tuple"
       THEN CASE Len(items) = 2 ->
                    \* u"%s\x04%s" % (message[1], message[0])
                    StringPayload(add_context(items[2].val, items[1].val))
              [] Len(items) = 3 ->
                    IF items[1].isstr /\ items[2].isstr
                    THEN TuplePayload(<<Str(strip_whitespace(items[1].val)),
                                        Str(strip_whitespace(items[2].val)),
                                        items[3]>>)
                    ELSE message
              [] Len(items) = 4 ->
                    \* re.sub on an element that is no string raises
                    IF items[1].isstr /\ items[2].isstr
                    THEN TuplePayload(
                           <<Str(add_context(items[4].val,
                                             strip_whitespace(items[1].val))),
                             Str(add_context(items[4].val,
                                             strip_whitespace(items[2].val))),
                             items[3]>>)
                    ELSE TypeError
              [] OTHER -> message
       ELSE message

\* one record of extract_tower_python, lines 209-215: the upstream record
\* with its message tweaked
extract_tower_python(record) ==
    [record EXCEPT !.message = tweak_message(@)]

\* one record of extract_tower_template, lines 218-224
extract_tower_template(record) ==
    [record EXCEPT !.message = tweak_message(@)]

\* the catalog a resolve of the tag builds
ResolvedCatalog(locale, outcome) ==
    Loaded(set_language(deepcopy(IF locale = <<"f", "r">>
                                 THEN FrameworkFrCatalog ELSE DefaultCatalog),
                        locale),
           locale, outcome)

\* the catalogs that can be active when the API is called
ApiCatalogs ==
    {DefaultCatalog} \cup {ResolvedCatalog(locale, "found") : locale \in Tags}

Alphabet == {"a", " ", "\n", SEP}
Messages == SeqsUpTo(Alphabet, MaxLen)
PluralAlphabet == {"a", " ", SEP}
PluralMessages == SeqsUpTo(PluralAlphabet, MaxPluralLen)
Contexts == {None, <<>>, <<"c">>}
Counts == 0..MaxCount

NoRecord == [lineno |-> "0", funcname |-> "", message |-> OtherPayload,
             comments |-> <<>>]

ApiCall(op, catalog, message, plural, number, context, record) ==
    [op |-> op, catalog |-> catalog, message |-> message, plural |-> plural,
     number |-> number, context |-> context, record |-> record]

UgettextCalls ==
    {ApiCall("ugettext", c, m, <<>>, 0, x, NoRecord) :
        c \in ApiCatalogs, m \in Messages, x \in Contexts}

UngettextCalls ==
    {ApiCall("ungettext", c, m[1], m[2], n, x, NoRecord) :
        c \in ApiCatalogs, m \in PluralMessages \X PluralMessages,
        n \in Counts, x \in Contexts}

\* the payload shapes the upstream scanners yield
Payloads ==
    {StringPayload(m) : m \in Messages}
    \cup {TuplePayload(<<Str(m), Str(x)>>) : m \in Messages, x \in {<<>>, <<"c">>}}
    \cup {TuplePayload(<<Str(m[1]), Str(m[2]), e>>) :
             m \in PluralMessages \X PluralMessages, e \in {Str(<<"n">>), NoneElem}}
    \cup {TuplePayload(<<Str(m), NoneElem, Str(<<"n">>)>>) : m \in PluralMessages}
    \cup {TuplePayload(<<Str(m[1]), Str(m[2]), Str(<<"n">>), Str(<<"c">>)>>) :
             m \in PluralMessages \X PluralMessages}
    \cup {TuplePayload(<<Str(m), NoneElem, Str(<<"n">>), Str(<<"c">>)>>) :
             m \in PluralMessages}
    \cup {TuplePayload(<<Str(m)>>) : m \in PluralMessages}
    \cup {OtherPayload}

ExtractCalls ==
    {ApiCall(op, DefaultCatalog, <<>>, <<>>, 0, None,
             [lineno |-> "1", funcname |-> "_", message |-> p,
              comments |-> <<>>]) :
        op \in {"extract_tower_python", "extract_tower_template"},
        p \in Payloads}

InitCalls ==
    /\ InitResolver
    /\ call \in UgettextCalls \cup UngettextCalls \cup ExtractCalls
    /\ result = NoResult

CallUgettext ==
    /\ call.op = "ugettext" /\ ~result.done
    /\ result' = [done |-> TRUE] @@
                 ugettext(call.catalog, call.message, call.context)
    /\ UNCHANGED <<resolverVars, call>>

CallUngettext ==
    /\ call.op = "ungettext" /\ ~result.done
    /\ result' = [done |-> TRUE] @@
                 ungettext(call.catalog, call.message, call.plural,
                           call.number, call.context)
    /\ UNCHANGED <<resolverVars, call>>

ExtractPython ==
    /\ call.op = "extract_tower_python" /\ ~result.done
    /\ result' = [done |-> TRUE, lookup |-> <<>>,
                  value |-> extract_tower_python(call.record)]
    /\ UNCHANGED <<resolverVars, call>>

ExtractTemplate ==
    /\ call.op = "extract_tower_template" /\ ~result.done
    /\ result' = [done |-> TRUE, lookup |-> <<>>,
                  value |-> extract_tower_template(call.record)]
    /\ UNCHANGED <<resolverVars, call>>

NextCalls ==
    \/ CallUgettext
    \/ CallUngettext
    \/ ExtractPython
    \/ ExtractTemplate

SpecCalls == InitCalls /\ [][NextCalls]_vars


-----------------------------------------------------------------------------
(* What "whitespace-normalized" means, stated without the code: out keeps  *)
(* the non-whitespace characters of m in order, starts and ends with one   *)
(* of them, and has exactly one space wherever m has whitespace between    *)
(* two of them.                                                            *)

NonSpaceIdx(s) ==
    SelectSeq([i \in 1..Len(s) |-> i], LAMBDA i : s[i] \notin Whitespace)

IsNormalizationOf(out, m) ==
    LET a == NonSpaceIdx(m)
        b == NonSpaceIdx(out)
    IN /\ Len(a) = Len(b)
       /\ \A k \in 1..Len(a) : out[b[k]] = m[a[k]]
       /\ IF Len(b) = 0 THEN out = <<>>
          ELSE b[1] = 1 /\ b[Len(b)] = Len(out)
       /\ \A k \in 1..(Len(a) - 1) :
             IF a[k + 1] = a[k] + 1
             THEN b[k + 1] = b[k] + 1
             ELSE b[k + 1] = b[k] + 2 /\ out[b[k] + 1] = " "

\* key is context + separator + the normalization of message
IsQualifiedKey(key, context, message) ==
    /\ IsPrefix(context \o <<SEP>>, key)
    /\ IsNormalizationOf(SubSeq(key, Len(context) + 2, Len(key)), message)

\* key is the key the API looks message up under: qualified when a context
\* is given, the bare normalization when none is
IsLookupKey(key, context, message) ==
    IF Truthy(context) THEN IsQualifiedKey(key, context, message)
    ELSE IsNormalizationOf(key, message)

\* the catalog has no singular entry for the qualified key
NoTranslationFor(catalog, context, message) ==
    \A k \in DOMAIN catalog.msgs : ~IsQualifiedKey(k, context, message)

-----------------------------------------------------------------------------
(* Claims about the message API and the extractor (SpecCalls).             *)

\* C1 as stated: for every (context, message) pair whose qualified key has
\* no translation in the active catalog, translate returns the normalized
\* message, and the result never contains the separator byte or the context
\* prefix.
C1_MissNeverHasSeparator ==
    (/\ call.op = "ugettext" /\ result.done
     /\ call.context # None
     /\ NoTranslationFor(call.catalog, call.context, call.message))
    => /\ IsNormalizationOf(result.value, call.message)
       /\ ~Contains(result.value, SEP)
       /\ ~IsPrefix(call.context \o <<SEP>>, result.value)

\* C1 amended: for every message and every non-empty context whose qualified
\* key has no translation in the active catalog, translate returns exactly
\* the normalized message; when the message itself holds no separator byte
\* the result holds neither the separator nor the context prefix.
C1_MissReturnsNormalized ==
    (/\ call.op = "ugettext" /\ result.done
     /\ Truthy(call.context)
     /\ NoTranslationFor(call.catalog, call.context, call.message))
    => /\ IsNormalizationOf(result.value, call.message)
       /\ ~Contains(call.message, SEP)
            => /\ ~Contains(result.value, SEP)
               /\ ~IsPrefix(call.context \o <<SEP>>, result.value)

\* a miss on a qualified key: the lookup gave the key back, the call gave
\* the normalized message, which differs from the message passed in
C1_Witness ==
    /\ call.op = "ugettext" /\ result.done
    /\ Truthy(call.context)
    /\ NoTranslationFor(call.catalog, call.context, call.message)
    /\ ~Contains(call.message, SEP)
    /\ IsQualifiedKey(result.lookup, call.context, call.message)
    /\ result.value # result.lookup
    /\ result.value # call.message
    /\ Len(result.value) > 1

\* C6 as stated: for every 2-tuple payload (string, context) the extractor's
\* output payload is context + separator + the whitespace-normalized string.
C6_PairIsNormalizedKey ==
    (/\ call.op \in {"extract_tower_python", "extract_tower_template"}
     /\ result.done
     /\ call.record.message.kind = "tuple"
     /\ Len(call.record.message.items) = 2)
    => /\ result.value.message.kind = "string"
       /\ IsQualifiedKey(result.value.message.items[1].val,
                         call.record.message.items[2].val,
                         call.record.message.items[1].val)

\* the lookup result is the key of the singular / of the plural form
C8_IsSingularKey ==
    IsLookupKey(result.lookup, call.context, call.message)
C8_IsPluralKey ==
    IsLookupKey(result.lookup, call.context, call.plural)

C8_PerForm ==
    /\ C8_IsSingularKey => IsNormalizationOf(result.value, call.message)
    /\ (~C8_IsSingularKey /\ C8_IsPluralKey)
          => IsNormalizationOf(result.value, call.plural)
    /\ (~C8_IsSingularKey /\ ~C8_IsPluralKey) => result.value = result.lookup

\* C8 as stated: translate_plural falls back per form (lookup gives the
\* singular key back: normalized singular; the plural key: normalized plural;
\* otherwise the looked-up string), and no result of a miss contains the
\* separator byte.
C8_MissNeverHasSeparator ==
    (call.op = "ungettext" /\ result.done)
    => /\ C8_PerForm
       /\ (C8_IsSingularKey \/ C8_IsPluralKey) => ~Contains(result.value, SEP)

\* C8 amended: translate_plural falls back per form as stated, and the
\* result of a miss contains the separator byte only when the form passed in
\* does.
C8_FallsBackPerForm ==
    (call.op = "ungettext" /\ result.done)
    => /\ C8_PerForm
       /\ ((C8_IsSingularKey \/ C8_IsPluralKey)
           /\ ~Contains(call.message, SEP) /\ ~Contains(call.plural, SEP))
          => ~Contains(result.value, SEP)

\* the catalog has an entry for the qualified singular but the plural form
\* asked for is missing: the lookup gives the qualified plural back and the
\* call gives the bare normalized plural
C8_Witness ==
    /\ call.op = "ungettext" /\ result.done
    /\ Truthy(call.context)
    /\ ~Contains(call.message, SEP) /\ ~Contains(call.plural, SEP)
    /\ \E k \in DOMAIN call.catalog.plurals :
          IsQualifiedKey(k[1], call.context, call.message)
    /\ C8_IsPluralKey /\ ~C8_IsSingularKey
    /\ result.value # result.lookup
    /\ result.value # call.plural


-----------------------------------------------------------------------------
(* Claims about the resolver, one call at a time (Spec).                   *)

\* C2: two resolve calls with no deactivate_all between them whose locale
\* arguments canonicalize to the same tag return the identical catalog
\* object: the second is a cache hit and repeats no copy or merge.
C2_SameTagSameObject ==
    (/\ last.op = "activate" /\ ~last.raised
     /\ last.prev.obj # NoObj)
    => /\ last.ret = last.prev.obj
       /\ last.hit /\ ~last.copied /\ last.load = "none"
       /\ translations[last.locale] = last.ret

\* two spellings of one tag: the second call got the object of the first
C2_Witness ==
    /\ last.op = "activate" /\ last.hit
    /\ last.prev.obj # NoObj
    /\ last.prev.raw # last.raw
    /\ last.ret = last.prev.obj
    /\ last.ret \in Copies(heap)

\* C3: deactivate_all empties the cache for every locale and resets the
\* active catalog to none; the resolve that follows it misses the cache and
\* copies and loads afresh, whatever locale it names.
C3_DeactivateAllClears ==
    /\ last.op = "deactivate_all"
          => /\ \A k \in CacheKeys : translations[k] = NoObj
             /\ active[Main] = NullObj
    /\ (last.op = "activate" /\ last.prevOp = "deactivate_all")
          => /\ ~last.hit /\ last.copied /\ last.load # "none"
             /\ last.src = FrameworkObj(last.locale)

\* two locales were cached, one of them not the active one; deactivate_all
\* dropped both and the next resolve of one of them merged again
C3_Witness ==
    /\ last.op = "activate" /\ last.prevOp = "deactivate_all"
    /\ Cardinality(last.dropped) >= 2
    /\ last.locale \in last.dropped
    /\ last.preActive = NullObj
    /\ last.load = "found" /\ ~last.hit

\* C4: the framework's catalogs, the objects resolve copies from, keep their
\* entries, plural rule and language tag in every reachable state.
C4_DefaultCatalogUntouched ==
    /\ heap[DefaultObj] = DefaultCatalog
    /\ heap[FrObj] = FrameworkFrCatalog

\* a copy of the default catalog got another tag, merged entries and another
\* plural rule
C4_Witness ==
    /\ last.op = "activate" /\ last.load = "found"
    /\ last.src = DefaultObj
    /\ heap[last.ret].lang # DefaultCatalog.lang
    /\ heap[last.ret].msgs # DefaultCatalog.msgs
    /\ heap[last.ret].plural # DefaultCatalog.plural

\* C5: when the supplementary catalog is found, the catalog resolve returns
\* and caches selects the plural index by the supplementary rule for every
\* count, and holds the supplementary entry for every key of the
\* supplementary catalog.
C5_SupplementaryWins ==
    (last.op = "activate" /\ last.load = "found")
    => LET t == heap[last.ret]
           b == bonus(to_locale(last.raw))
       IN /\ ~last.raised
          /\ translations[to_locale(last.raw)] = last.ret
          /\ \A n \in 0..(MaxCount + 1) :
                PluralIndex(t.plural, n) = PluralIndex(b.plural, n)
          /\ \A k \in DOMAIN b.msgs : k \in DOMAIN t.msgs /\ t.msgs[k] = b.msgs[k]
          /\ \A k \in DOMAIN b.plurals :
                k \in DOMAIN t.plurals /\ t.plurals[k] = b.plurals[k]

\* the supplementary rule differs from the default's at some count and a key
\* of both catalogs has different texts
C5_Witness ==
    /\ last.op = "activate" /\ last.load = "found"
    /\ \E n \in 0..MaxCount :
          PluralIndex(heap[last.src].plural, n)
             # PluralIndex(bonus(last.locale).plural, n)
    /\ \E k \in DOMAIN bonus(last.locale).plurals :
          /\ k \in DOMAIN heap[last.src].plurals
          /\ heap[last.src].plurals[k] # bonus(last.locale).plurals[k]
          /\ heap[last.ret].plurals[k] = bonus(last.locale).plurals[k]

\* C7: when the loader reports that the supplementary catalog does not
\* exist, resolve raises nothing and returns a new object equal to the
\* framework's catalog except for the language tag, which is the canonical
\* tag, and the cache holds that object under the canonical tag.
C7_NotFoundIsCopyOnly ==
    (last.op = "activate" /\ last.load = "notfound")
    => /\ ~last.raised
       /\ last.ret \in Copies(heap)
       /\ last.src = FrameworkObj(to_locale(last.raw))
       /\ heap[last.ret] = [heap[last.src] EXCEPT !.lang = to_locale(last.raw)]
       /\ translations[to_locale(last.raw)] = last.ret
       /\ active[Main] = last.ret

C7_Witness ==
    /\ last.op = "activate" /\ last.load = "notfound"
    /\ last.ret \in Copies(heap)
    /\ heap[last.ret].lang # heap[last.src].lang
    /\ heap[last.ret].msgs = heap[last.src].msgs
    /\ translations[last.locale] = last.ret

\* C9 as stated: when loading fails with anything but not-found, the call
\* raises and leaves the state as it was: the active catalog unchanged and
\* no catalog in the cache under the canonical tag.
C9_FailureLeavesNoTrace ==
    (last.op = "activate" /\ last.load \in {"ioerror", "error"})
    => /\ last.raised
       /\ active[Main] = last.preActive
       /\ translations[last.locale] = NoObj


-----------------------------------------------------------------------------
(* The resolver called from two threads with no lock (SpecThreads).  Each  *)
(* step is one statement of _activate that touches shared state, together  *)
(* with the thread-local statements that follow it.                        *)

\* the locale arguments the threads activate
ThreadLocales ==
    {<<"e", "n", "-", "U", "S">>, <<"e", "n", "-", "u", "s">>, <<"f", "r">>}

\* between the cache check (line 126) and the cache store (line 165)
InWindow(th) == pc[th] \in {"fetch", "copy", "load", "store"}

Other(th) == CHOOSE o \in Threads : o # th

\* race forgets a finished observation at the next step of any thread
Forget(r) == IF r.done THEN NoRace ELSE r

\* lines 123-128: canonicalize, look the cache up, return on a hit (activate
\* then binds the thread's active catalog)
Check(th, raw) ==
    LET locale == to_locale(raw)
        cached == translations[locale]
        o == Other(th)
        same == InWindow(o) /\ frame[o].locale = locale
    IN /\ pc[th] = "idle"
       /\ IF cached # NoObj
          THEN /\ active' = [active EXCEPT ![th] = cached]
               /\ race' = Forget(race)
               /\ UNCHANGED <<pc, frame>>
          ELSE /\ pc' = [pc EXCEPT ![th] = "fetch"]
               /\ frame' = [th2 \in Threads |->
                              IF th2 = th
                              THEN [raw |-> raw, locale |-> locale,
                                    src |-> NoObj, miss |-> FALSE,
                                    t |-> NoObj, racing |-> same]
                              ELSE [frame[th2] EXCEPT !.racing = @ \/ same]]
               /\ race' = IF same
                          THEN [tag |-> locale, stores |-> <<>>, done |-> FALSE]
                          ELSE Forget(race)
               /\ UNCHANGED active
       /\ UNCHANGED <<heap, translations, last, returned, call, result>>

\* line 137, entering django's translation(locale): it reads _translations
\* and answers a hit from it; on a miss it goes on to build the framework's
\* catalog, and another thread may run before it stores that
Fetch(th) ==
    LET locale == frame[th].locale
    IN /\ pc[th] = "fetch"
       /\ frame' = [frame EXCEPT ![th].src = translation(translations, locale),
                                 ![th].miss = translations[locale] = NoObj]
       /\ pc' = [pc EXCEPT ![th] = "copy"]
       /\ race' = Forget(race)
       /\ UNCHANGED <<heap, translations, active, last, returned, call, result>>

\* lines 137-138, leaving translation(locale): after a miss it stores what
\* it built in _translations, over whatever is there by now; then the deep
\* copy of what it returned and set_language
Copy(th) ==
    LET locale == frame[th].locale
        src == frame[th].src
    IN /\ pc[th] = "copy"
       /\ Cardinality(Copies(heap)) < MaxThreadCopies
       /\ translations' = IF frame[th].miss
                          THEN [translations EXCEPT ![locale] = src]
                          ELSE translations
       /\ heap' = Copied(heap, src, locale)
       /\ frame' = [frame EXCEPT ![th].t = copy_target(src, Fresh(heap))]
       /\ pc' = [pc EXCEPT ![th] = "load"]
       /\ race' = Forget(race)
       /\ UNCHANGED <<active, last, returned, call, result>>

\* lines 139-163: the try block
Load(th, outcome) ==
    /\ pc[th] = "load"
    /\ heap' = [heap EXCEPT ![frame[th].t] = Loaded(@, frame[th].locale, outcome)]
    /\ IF Raises(outcome)
       THEN /\ pc' = [pc EXCEPT ![th] = "idle"]
            /\ frame' = [th2 \in Threads |->
                           IF th2 = th THEN NoFrame
                           ELSE [frame[th2] EXCEPT !.racing = FALSE]]
       ELSE /\ pc' = [pc EXCEPT ![th] = "store"]
            /\ UNCHANGED frame
    /\ race' = Forget(race)
    /\ UNCHANGED <<translations, active, last, returned, call, result>>

\* lines 165-166 and line 112: the store, the return and the binding of the
\* thread's active catalog
Store(th) ==
    LET t == frame[th].t
        stores == IF frame[th].racing
                  THEN Append(race.stores, [th |-> th, obj |-> t])
                  ELSE race.stores
    IN /\ pc[th] = "store"
       /\ translations' = store(translations, frame[th].locale, t)
       /\ active' = [active EXCEPT ![th] = t]
       /\ pc' = [pc EXCEPT ![th] = "idle"]
       /\ frame' = [frame EXCEPT ![th] = NoFrame]
       /\ race' = IF frame[th].racing
                  THEN [race EXCEPT !.stores = stores,
                                    !.done = Len(stores) = Cardinality(Threads)]
                  ELSE Forget(race)
       /\ UNCHANGED <<heap, last, returned, call, result>>

\* deactivate_all() from a thread that is not inside activate
DeactivateAll(th) ==
    /\ pc[th] = "idle"
    /\ active' = [active EXCEPT ![th] = NullObj]
    /\ translations' = deactivate_cache(translations)
    /\ race' = Forget(race)
    /\ UNCHANGED <<heap, pc, frame, last, returned, call, result>>

NextThreads ==
    \E th \in Threads :
        \/ \E raw \in ThreadLocales : Check(th, raw)
        \/ Fetch(th)
        \/ Copy(th)
        \/ \E outcome \in LoadOutcomes : Load(th, outcome)
        \/ Store(th)
        \/ DeactivateAll(th)

SpecThreads == Init /\ [][NextThreads]_vars

\* C10: activation takes no lock, and when two threads resolve the same
\* uncached locale with both between the cache check and the cache store at
\* once, each builds its own copy: the two calls return different catalog
\* objects and the cache keeps only the one stored last.
C10_RaceGivesTwoObjects ==
    race.done
    => /\ Len(race.stores) = Cardinality(Threads)
       /\ race.stores[1].th # race.stores[2].th
       /\ race.stores[1].obj # race.stores[2].obj
       /\ race.stores[1].obj \in Copies(heap)
       /\ race.stores[2].obj \in Copies(heap)
       /\ translations[race.tag] = race.stores[2].obj
       /\ translations[race.tag] # race.stores[1].obj
       /\ active[race.stores[2].th] = race.stores[2].obj

\* two threads were in the window with the same locale at once; both then
\* merged the supplementary catalog into a copy of their own and stored it
C10_Witness ==
    /\ race.done
    /\ \A i \in 1..Len(race.stores) :
          /\ heap[race.stores[i].obj].plural = bonus(race.tag).plural
          /\ heap[race.stores[i].obj].lang = race.tag
          /\ heap[race.stores[i].obj].msgs # heap[FrameworkObj(race.tag)].msgs

=============================================================================
